---- MODULE Spec2Model ----
(***************************************************************************)
(* Model of structured_output_cookbook: the schema normalizer              *)
(* (StructuredExtractor._ensure_additional_properties_false) and the two   *)
(* extraction entry points (StructuredExtractor.extract and                *)
(* StructuredExtractor.extract_with_yaml_schema) of extractor.py.          *)
(*                                                                         *)
(* Python values are tagged records [k |-> kind, v |-> payload]:           *)
(*   dict  v is a function from key strings to values                      *)
(*   list  v is a sequence of values                                       *)
(*   str   v is the string, bool v is "True"/"False", int v is a number    *)
(*   none  Python's None (JSON null)                                       *)
(***************************************************************************)
EXTENDS Integers, Sequences, FiniteSets, TLC

VARIABLES
    norm_input,     \* the mapping handed to the normalizer, as it was before
    norm_dict,      \* the same mapping object now (the normalizer works in place)
    norm_once,      \* the mapping as it was after the first pass
    norm_passes,    \* how many times the normalizer has run on norm_dict
    pc,             \* where the invocation of the entry point stands
    entry,          \* "extract" or "extract_with_yaml_schema"
    max_retries,    \* self.config.max_retries
    system_prompt,  \* extract's system_prompt argument
    schema_prompt,  \* schema.get_extraction_prompt() / yaml_schema.system_prompt
    yaml_schema,    \* yaml_schema.schema, the mapping the caller holds
    schema_before,  \* yaml_schema.schema as it was when the call began
    prompt,         \* the system message content of the request
    schema_dict,    \* the local schema_dict, sent as json_schema.schema
    provider_calls, \* calls of self.client.chat.completions.create so far
    timeouts,       \* how many of them timed out
    response,       \* what the last provider call did
    json_loads_calls, \* calls of json.loads so far
    raw_data,       \* what json.loads returned (None before, and when it raised)
    result,         \* the ExtractionResult returned (None before the return)
    raised,         \* an exception left the entry point
    history,        \* the results of the earlier calls on this extractor
    collaborator_calls, \* the calls made on RateLimiter, SimpleCache, CostTracker
    environ,        \* os.environ["OPENAI_API_KEY"] (None when it is not set)
    mode,           \* the process is the "cli" or a program using the "library"
    config_arg,     \* the config argument of StructuredExtractor(config)
    config,         \* the Config the process has built (None before)
    command,        \* the CLI command
    has_input,      \* --text or --input-file was given
    no_save,        \* --no-save was given
    proc_pc,        \* where the process stands
    proc_error,     \* the exception that ended the process (None if none did)
    exit_status,    \* the CLI's exit status (None while it runs)
    files,          \* the result files written
    workers         \* the threads inside extract_with_yaml_schema, one record each

norm_vars == <<norm_input, norm_dict, norm_once, norm_passes>>

call_vars == <<pc, entry, max_retries, system_prompt, schema_prompt, yaml_schema,
               schema_before, prompt, schema_dict, provider_calls, timeouts,
               response, json_loads_calls, raw_data, result, raised>>

session_vars == <<history, collaborator_calls>>

\* the state outside one invocation of an entry point
proc_vars == <<environ, mode, config_arg, config, command, has_input, no_save,
               proc_pc, proc_error, exit_status, files>>

conc_vars == <<workers>>

outer_vars == <<session_vars, proc_vars, conc_vars>>

vars == <<norm_vars, call_vars, outer_vars>>

(***************************************************************************)
(* Bounds of the model.                                                    *)
(***************************************************************************)
\* nesting depth of the schemas handed to the normalizer
MaxDepth == 2

\* nesting depth of the schemas a YamlSchema holds
MaxYamlDepth == 1

\* largest MAX_RETRIES the environment sets
MaxRetriesEnv == 3

\* calls of an entry point made one after the other on one extractor
MaxInvocations == 2

\* threads that call extract_with_yaml_schema at the same time
NumWorkers == 2

\* nesting depth of the schema the threads share
MaxConcDepth == 1

(***************************************************************************)
(* Program constants.                                                      *)
(***************************************************************************)
\* Config.max_retries: int = 3
DefaultMaxRetries == 3

\* cli.py's estimate, tokens_used * 0.00001 dollars: 10 millionths a token
MicroDollarsPerToken == 10

(***************************************************************************)
(* Python / JSON values.                                                   *)
(***************************************************************************)
Str(s) == [k |-> "str", v |-> s]

PyFalse == [k |-> "bool", v |-> "False"]

PyTrue == [k |-> "bool", v |-> "True"]

None == [k |-> "none", v |-> "None"]

PyInt(n) == [k |-> "int", v |-> n]

Dict(f) == [k |-> "dict", v |-> f]

List(s) == [k |-> "list", v |-> s]

isinstance_dict(x) == x.k = "dict"

isinstance_list(x) == x.k = "list"

\* d.get(key): the value under key, None when the key is absent
dict_get(d, key) == IF key \in DOMAIN d.v THEN d.v[key] ELSE None

\* d[key] = value
dict_set(d, key, value) ==
    Dict([x \in (DOMAIN d.v) \cup {key} |-> IF x = key THEN value ELSE d.v[x]])

(***************************************************************************)
(* The normalizer, extractor.py 156-172.  The code mutates the mapping in  *)
(* place; on a tree-shaped mapping the mapping it leaves behind is the     *)
(* value computed here.                                                    *)
(***************************************************************************)
\* the keys whose value may also be a list of schemas (line 164)
NestedSchemaKeys == {"properties", "items", "anyOf", "allOf", "oneOf"}

\* lines 159-160 as a plausible slip: the entry is set depending on its prior
\* value (`not schema_dict.get("additionalProperties", True)`)
CloseObjectConditional(sd) ==
    IF dict_get(sd, "type") = Str("object")
    THEN dict_set(sd, "additionalProperties",
                  IF dict_get(sd, "additionalProperties") = PyFalse
                  THEN PyTrue ELSE PyFalse)
    ELSE sd

\* lines 159-160 as a plausible slip: every mapping is closed, object-typed or not
CloseEveryMapping(sd) ==
    dict_set(sd, "additionalProperties", PyFalse)

\* lines 159-160: if schema_dict.get("type") == "object":
\*                    schema_dict["additionalProperties"] = False
CloseObject(sd) ==
    IF dict_get(sd, "type") = Str("object")
    THEN dict_set(sd, "additionalProperties", PyFalse)
    ELSE sd

RECURSIVE ensure_additional_properties_false(_)
\* lines 167-170: for item in value: if isinstance(item, dict): recurse
EnsureItems(value) ==
    List([i \in DOMAIN value.v |->
            IF isinstance_dict(value.v[i])
            THEN ensure_additional_properties_false(value.v[i])
            ELSE value.v[i]])

\* lines 163-172: what the loop body leaves under one key
EnsureEntry(key, value) ==
    IF key \in NestedSchemaKeys
    THEN IF isinstance_dict(value) THEN ensure_additional_properties_false(value)
         ELSE IF isinstance_list(value) THEN EnsureItems(value)
         ELSE value
    ELSE IF isinstance_dict(value) THEN ensure_additional_properties_false(value)
         ELSE value

\* lines 156-172
ensure_additional_properties_false(sd) ==
    IF isinstance_dict(sd)
    THEN LET closed == CloseObject(sd)
         IN  Dict([key \in DOMAIN closed.v |-> EnsureEntry(key, closed.v[key])])
    ELSE sd

(***************************************************************************)
(* The JSON-Schema-shaped mappings the normalizer is run on: every shape   *)
(* of nesting the walk distinguishes, to a bounded depth.                  *)
(***************************************************************************)
StringSchema == Dict([type |-> Str("string")])

ObjectSchema == Dict([type |-> Str("object")])

\* the innermost mappings: scalar and object schemas, the object ones with no
\* additionalProperties entry, with true and with false
LeafSchemas ==
    { StringSchema,
      ObjectSchema,
      Dict([type |-> Str("object"), additionalProperties |-> PyTrue]),
      Dict([type |-> Str("object"), additionalProperties |-> PyFalse]),
      Dict([type |-> Str("array"), items |-> StringSchema]) }

\* a mapping one level deeper, holding the mapping c
Wrap(c) ==
    { Dict([type |-> Str("object"), properties |-> Dict([name |-> c])]),
      Dict([type |-> Str("array"), items |-> c]),
      Dict([anyOf |-> List(<<ObjectSchema, c>>)]),
      Dict([type |-> Str("array"), items |-> List(<<c>>)]),
      Dict([type |-> Str("array"), prefixItems |-> List(<<c>>)]),
      Dict(("type" :> Str("object")) @@ ("$defs" :> Dict([D |-> c]))),
      Dict([type |-> Str("object"), additionalProperties |-> c]) }

RECURSIVE SchemaTrees(_)
SchemaTrees(depth) ==
    IF depth = 0 THEN LeafSchemas
    ELSE LET below == SchemaTrees(depth - 1)
         IN  below \cup UNION { Wrap(c) : c \in below }

SchemaInputs == SchemaTrees(MaxDepth)

(***************************************************************************)
(* The normalizer run once and run again on a mapping.                     *)
(***************************************************************************)
\* no invocation of an entry point is under way
NoCall ==
    /\ pc = "idle"
    /\ entry = "none"
    /\ max_retries = DefaultMaxRetries
    /\ system_prompt = None
    /\ schema_prompt = None
    /\ yaml_schema = None
    /\ schema_before = None
    /\ prompt = None
    /\ schema_dict = None
    /\ provider_calls = 0
    /\ timeouts = 0
    /\ response = None
    /\ json_loads_calls = 0
    /\ raw_data = None
    /\ result = None
    /\ raised = FALSE

\* a new extractor: no earlier call, and no call made on a collaborator
NewSession ==
    /\ history = <<>>
    /\ collaborator_calls = <<>>

\* no process around the call: the entry point is looked at on its own
NoProcess ==
    /\ environ = None
    /\ mode = "none"
    /\ config_arg = None
    /\ config = None
    /\ command = "none"
    /\ has_input = FALSE
    /\ no_save = FALSE
    /\ proc_pc = "none"
    /\ proc_error = None
    /\ exit_status = None
    /\ files = {}

\* the call is the only one under way: no other thread is in the extractor
SingleThread == workers = <<>>

NormInit ==
    /\ norm_input \in SchemaInputs
    /\ norm_dict = norm_input
    /\ norm_once = None
    /\ norm_passes = 0
    /\ NoCall
    /\ NewSession
    /\ NoProcess
    /\ SingleThread

\* self._ensure_additional_properties_false(schema_dict), a first time
NormalizeOnce ==
    /\ norm_passes = 0
    /\ norm_dict' = ensure_additional_properties_false(norm_dict)
    /\ norm_once' = norm_dict'
    /\ norm_passes' = 1
    /\ UNCHANGED <<norm_input, call_vars, outer_vars>>

\* ... and a second time on the mapping the first pass left
NormalizeAgain ==
    /\ norm_passes = 1
    /\ norm_dict' = ensure_additional_properties_false(norm_dict)
    /\ norm_passes' = 2
    /\ UNCHANGED <<norm_input, norm_once, call_vars, outer_vars>>

NormNext == NormalizeOnce \/ NormalizeAgain

SpecNormalize == NormInit /\ [][NormNext]_vars

(***************************************************************************)
(* Properties of the normalizer (checked under SpecNormalize).             *)
(***************************************************************************)
\* every object-typed mapping anywhere inside x (under any key, in any list)
\* has additionalProperties = False
RECURSIVE ObjectsClosed(_)
ObjectsClosed(x) ==
    IF isinstance_dict(x)
    THEN /\ dict_get(x, "type") = Str("object")
            => dict_get(x, "additionalProperties") = PyFalse
         /\ \A key \in DOMAIN x.v : ObjectsClosed(x.v[key])
    ELSE IF isinstance_list(x)
    THEN \A i \in DOMAIN x.v : ObjectsClosed(x.v[i])
    ELSE TRUE

\* after equals before except for the additionalProperties entry of the
\* object-typed mappings inside it
RECURSIVE FrameHolds(_, _)
FrameHolds(before, after) ==
    IF isinstance_dict(before)
    THEN LET free == IF dict_get(before, "type") = Str("object")
                     THEN {"additionalProperties"} ELSE {}
         IN  /\ isinstance_dict(after)
             /\ (DOMAIN after.v) \ free = (DOMAIN before.v) \ free
             /\ \A key \in (DOMAIN before.v) \ free :
                  FrameHolds(before.v[key], after.v[key])
    ELSE IF isinstance_list(before)
    THEN /\ isinstance_list(after)
         /\ Len(after.v) = Len(before.v)
         /\ \A i \in DOMAIN before.v : FrameHolds(before.v[i], after.v[i])
    ELSE after = before

\* C1: after the normalizer has run on a mapping, every sub-mapping whose
\* type is "object", at any depth and wherever it sits (under any key or
\* inside any sequence), has additionalProperties equal to false.
C1_ClosedObjectEverywhere ==
    norm_passes >= 1 => ObjectsClosed(norm_dict)

\* C2: running the normalizer twice yields exactly the mapping that running
\* it once yields, also when the input carries additionalProperties entries
\* with other values (true, or a sub-schema).
C2_Idempotent ==
    norm_passes = 2 => norm_dict = norm_once

\* C2's case: two passes over an object schema whose additionalProperties was
\* a sub-schema, which the first pass replaced
C2_Witness ==
    /\ norm_passes = 2
    /\ isinstance_dict(dict_get(norm_input, "additionalProperties"))
    /\ dict_get(norm_input, "type") = Str("object")
    /\ dict_get(norm_once, "additionalProperties") = PyFalse
    /\ norm_once # norm_input

\* C5: the normalized mapping equals the input except for the
\* additionalProperties entry of the object-typed sub-mappings: no other key
\* is added, removed or changed, mappings that are not object-typed keep
\* their entries, and values that are neither mapping nor sequence are
\* untouched.
C5_Frame ==
    norm_passes >= 1 => FrameHolds(norm_input, norm_dict)

\* C5's case: an array schema (not object-typed) with an object schema
\* nested in it, which the normalizer closed
C5_Witness ==
    /\ norm_passes = 1
    /\ dict_get(norm_input, "type") = Str("array")
    /\ "additionalProperties" \notin DOMAIN norm_dict.v
    /\ norm_dict # norm_input

(***************************************************************************)
(* Strings of the entry points (prompts, response bodies, error messages)  *)
(* are sequences of tokens, so that f-string formatting is concatenation   *)
(* and "contains" is a contiguous-subsequence test.                        *)
(***************************************************************************)
Text(tokens) == [k |-> "text", v |-> tokens]

\* Python's truth value of an Optional[str]: None and "" are false
Truthy(x) == x # None /\ x # Text(<<>>)

\* needle in haystack, for two strings
StrContains(haystack, needle) ==
    /\ haystack.k = "text"
    /\ \E i \in 0 .. (Len(haystack.v) - Len(needle)) :
          SubSeq(haystack.v, i + 1, i + Len(needle)) = needle

(***************************************************************************)
(* ExtractionResult (schemas/base.py): its two constructors.               *)
(***************************************************************************)
\* ExtractionResult.error_result(message)
error_result(message) ==
    [success |-> FALSE, data |-> None, error |-> message,
     model_used |-> None, tokens_used |-> None]

\* the data field holds a mapping or None; any other value fails validation
ResultDataAccepted(data) == isinstance_dict(data) \/ data = None

\* ExtractionResult.success_result(data, model_used, tokens_used)
success_result(data, model_used, tokens_used) ==
    [success |-> TRUE, data |-> data, error |-> None,
     model_used |-> model_used, tokens_used |-> tokens_used]

(***************************************************************************)
(* The provider: what self.client.chat.completions.create can do.          *)
(***************************************************************************)
\* response bodies (response.choices[0].message.content)
JsonMalformed == Text(<<"{", "\"name\"">>)

JsonNull == Text(<<"null">>)

JsonArray == Text(<<"[", "1", "]">>)

JsonConforming == Text(<<"{", "\"name\"", ":", "\"Pasta\"", "}">>)

JsonViolating == Text(<<"{", "\"name\"", ":", "5", "}">>)

Contents ==
    {None, Text(<<>>), JsonMalformed, JsonNull, JsonArray, JsonConforming,
     JsonViolating}

\* create() raises (a timeout, another provider error) or returns a completion
ProviderOutcomes ==
    { [kind |-> kd, choices |-> 0, content |-> None, model |-> None,
       usage |-> None] : kd \in {"APITimeoutError", "APIError", "completion"} }
    \cup
    { [kind |-> "completion", choices |-> 1, content |-> c,
       model |-> Str("gpt-4o-2024-08-06"), usage |-> u] :
         c \in Contents, u \in {None, PyInt(42)} }

\* str(e) of the exceptions
TimeoutMessage == <<"Request", "timed", "out.">>

ApiErrorMessage == <<"Connection", "error.">>

IndexErrorMessage == <<"list", "index", "out", "of", "range">>

TypeErrorMessage == <<"argument", "after", "**", "must", "be", "a", "mapping">>

JSONDecodeErrorMessage == <<"Expecting", "':'", "delimiter">>

ValidationErrorMessage == <<"1", "validation", "error">>

\* json.loads(content): the value, or JSONDecodeError
json_loads(content) ==
    CASE content = JsonNull ->
           [raises |-> FALSE, value |-> None, msg |-> <<>>]
      [] content = JsonArray ->
           [raises |-> FALSE, value |-> List(<<PyInt(1)>>), msg |-> <<>>]
      [] content = JsonConforming ->
           [raises |-> FALSE, value |-> Dict([name |-> Str("Pasta")]), msg |-> <<>>]
      [] content = JsonViolating ->
           [raises |-> FALSE, value |-> Dict([name |-> PyInt(5)]), msg |-> <<>>]
      [] OTHER ->
           [raises |-> TRUE, value |-> None, msg |-> JSONDecodeErrorMessage]

(***************************************************************************)
(* A compiled schema (templates/recipe.py): name is a required str, the    *)
(* description is optional.                                                *)
(***************************************************************************)
\* schema.model_json_schema()
model_json_schema ==
    Dict([type |-> Str("object"),
          properties |->
              Dict([name |-> StringSchema,
                    description |->
                        Dict([anyOf |-> List(<<StringSchema,
                                               Dict([type |-> Str("null")])>>)])]),
          required |-> List(<<Str("name")>>)])

\* schema(**raw_data) passes pydantic's validation
SchemaAccepts(raw) ==
    /\ "name" \in DOMAIN raw.v
    /\ raw.v["name"].k = "str"
    /\ "description" \in DOMAIN raw.v => raw.v["description"].k \in {"str", "none"}

\* validated_data.model_dump()
model_dump(raw) ==
    Dict([name |-> raw.v["name"], description |-> dict_get(raw, "description")])

(***************************************************************************)
(* The body of the two entry points after the provider call.  A body       *)
(* either returns a result or raises; [raises, msg, value].                *)
(***************************************************************************)
Return(r) == [raises |-> FALSE, msg |-> <<>>, value |-> r]

Raise(message) == [raises |-> TRUE, msg |-> message, value |-> None]

\* line 71 / 135 as a plausible slip: `if content is None`
IsNoneContent(content) == content = None

\* lines 71 and 135: `if not content`
IsEmptyContent(content) == ~Truthy(content)

\* line 89: f"Invalid response format: {str(e)}"
InvalidResponseFormat(e) == Text(<<"Invalid", "response", "format", ":">> \o e)

\* line 150 as a plausible slip: the message of the outer handler, str(e)
InvalidJsonResponseBare(e) == Text(e)

\* line 150: f"Invalid JSON response: {str(e)}"
InvalidJsonResponse(e) == Text(<<"Invalid", "JSON", "response", ":">> \o e)

\* response.usage.total_tokens if response.usage else None
TokensUsed(resp) == resp.usage

\* lines 52-89: the provider call's outcome to the return or the exception
ExtractBody(resp) ==
    IF resp.kind = "APITimeoutError" THEN Raise(TimeoutMessage)
    ELSE IF resp.kind = "APIError" THEN Raise(ApiErrorMessage)
    ELSE IF resp.choices = 0 THEN Raise(IndexErrorMessage)
    ELSE IF IsEmptyContent(resp.content)
    THEN Return(error_result(Text(<<"Empty", "response", "from", "LLM">>)))
    ELSE LET loaded == json_loads(resp.content)
         IN  IF loaded.raises
             THEN Return(error_result(InvalidResponseFormat(loaded.msg)))
             ELSE IF ~isinstance_dict(loaded.value)
             THEN Raise(TypeErrorMessage)
             ELSE IF ~SchemaAccepts(loaded.value)
             THEN Return(error_result(InvalidResponseFormat(ValidationErrorMessage)))
             ELSE Return(success_result(model_dump(loaded.value), resp.model,
                                        TokensUsed(resp)))

\* lines 117-150
YamlBody(resp) ==
    IF resp.kind = "APITimeoutError" THEN Raise(TimeoutMessage)
    ELSE IF resp.kind = "APIError" THEN Raise(ApiErrorMessage)
    ELSE IF resp.choices = 0 THEN Raise(IndexErrorMessage)
    ELSE IF IsEmptyContent(resp.content)
    THEN Return(error_result(Text(<<"Empty", "response", "from", "LLM">>)))
    ELSE LET loaded == json_loads(resp.content)
         IN  IF loaded.raises
             THEN Return(error_result(InvalidJsonResponse(loaded.msg)))
             ELSE IF ~ResultDataAccepted(loaded.value)
             THEN Raise(ValidationErrorMessage)
             ELSE Return(success_result(loaded.value, resp.model,
                                        TokensUsed(resp)))

\* lines 91-93 and 152-154: except Exception as e: return error_result(str(e))
CatchAll(body) ==
    IF body.raises THEN error_result(Text(body.msg)) ELSE body.value

\* json.loads is reached (lines 76 and 139)
ReachesJsonLoads(resp) ==
    /\ resp.kind = "completion"
    /\ resp.choices > 0
    /\ ~IsEmptyContent(resp.content)

\* lines 114-115: the copy is shallow, so the walk closes the nested mappings
\* of the caller's schema too; only the copy's own entry is set at the top
SharedAfterWalk(orig) ==
    LET closed == CloseObject(orig)
    IN  Dict([key \in DOMAIN orig.v |->
                IF closed.v[key] # orig.v[key] THEN orig.v[key]
                ELSE EnsureEntry(key, orig.v[key])])

(***************************************************************************)
(* One invocation of an entry point.                                       *)
(***************************************************************************)
YamlSchemas == SchemaTrees(MaxYamlDepth)

Prompts == {Text(<<>>), Text(<<"Extract", "structured", "information">>)}

NormIdle ==
    /\ norm_input = None
    /\ norm_dict = None
    /\ norm_once = None
    /\ norm_passes = 0

Init ==
    /\ NormIdle
    /\ NewSession
    /\ NoProcess
    /\ SingleThread
    /\ pc = "start"
    /\ entry \in {"extract", "extract_with_yaml_schema"}
    /\ max_retries \in 1 .. MaxRetriesEnv
    /\ schema_prompt \in Prompts
    /\ IF entry = "extract"
       THEN /\ system_prompt \in {None} \cup Prompts
            /\ yaml_schema = None
       ELSE /\ system_prompt = None
            /\ yaml_schema \in YamlSchemas
    /\ schema_before = yaml_schema
    /\ prompt = None
    /\ schema_dict = None
    /\ provider_calls = 0
    /\ timeouts = 0
    /\ response = None
    /\ json_loads_calls = 0
    /\ raw_data = None
    /\ result = None
    /\ raised = FALSE

\* extract, lines 41-50
ExtractPrepare ==
    /\ pc = "start"
    /\ entry = "extract"
    /\ prompt' = IF Truthy(system_prompt) THEN system_prompt ELSE schema_prompt
    /\ schema_dict' = ensure_additional_properties_false(model_json_schema)
    /\ pc' = "prepared"
    /\ UNCHANGED <<norm_vars, outer_vars, entry, max_retries, system_prompt, schema_prompt,
                   yaml_schema, schema_before, provider_calls, timeouts,
                   response, json_loads_calls, raw_data, result, raised>>

\* extract, lines 52-67: the one call of create
ExtractCall ==
    /\ pc = "prepared"
    /\ entry = "extract"
    /\ \E outcome \in ProviderOutcomes :
          /\ response' = outcome
          /\ timeouts' = timeouts + (IF outcome.kind = "APITimeoutError" THEN 1 ELSE 0)
    /\ provider_calls' = provider_calls + 1
    /\ pc' = "called"
    /\ UNCHANGED <<norm_vars, outer_vars, entry, max_retries, system_prompt, schema_prompt,
                   yaml_schema, schema_before, prompt, schema_dict,
                   json_loads_calls, raw_data, result, raised>>

\* extract, lines 69-93
ExtractFinish ==
    /\ pc = "called"
    /\ entry = "extract"
    /\ json_loads_calls' =
          json_loads_calls + (IF ReachesJsonLoads(response) THEN 1 ELSE 0)
    /\ raw_data' = IF ReachesJsonLoads(response)
                   THEN json_loads(response.content).value ELSE None
    /\ result' = CatchAll(ExtractBody(response))
    /\ raised' = FALSE
    /\ pc' = "done"
    /\ UNCHANGED <<norm_vars, outer_vars, entry, max_retries, system_prompt, schema_prompt,
                   yaml_schema, schema_before, prompt, schema_dict,
                   provider_calls, timeouts, response>>

\* extract_with_yaml_schema, lines 111-115
YamlPrepare ==
    /\ pc = "start"
    /\ entry = "extract_with_yaml_schema"
    /\ schema_dict' = ensure_additional_properties_false(yaml_schema)
    /\ yaml_schema' = SharedAfterWalk(yaml_schema)
    /\ prompt' = schema_prompt
    /\ pc' = "prepared"
    /\ UNCHANGED <<norm_vars, outer_vars, entry, max_retries, system_prompt, schema_prompt,
                   schema_before, provider_calls, timeouts, response,
                   json_loads_calls, raw_data, result, raised>>

\* extract_with_yaml_schema, lines 117-132: the one call of create
YamlCall ==
    /\ pc = "prepared"
    /\ entry = "extract_with_yaml_schema"
    /\ \E outcome \in ProviderOutcomes :
          /\ response' = outcome
          /\ timeouts' = timeouts + (IF outcome.kind = "APITimeoutError" THEN 1 ELSE 0)
    /\ provider_calls' = provider_calls + 1
    /\ pc' = "called"
    /\ UNCHANGED <<norm_vars, outer_vars, entry, max_retries, system_prompt, schema_prompt,
                   yaml_schema, schema_before, prompt, schema_dict,
                   json_loads_calls, raw_data, result, raised>>

\* extract_with_yaml_schema, lines 134-154
YamlFinish ==
    /\ pc = "called"
    /\ entry = "extract_with_yaml_schema"
    /\ json_loads_calls' =
          json_loads_calls + (IF ReachesJsonLoads(response) THEN 1 ELSE 0)
    /\ raw_data' = IF ReachesJsonLoads(response)
                   THEN json_loads(response.content).value ELSE None
    /\ result' = CatchAll(YamlBody(response))
    /\ raised' = FALSE
    /\ pc' = "done"
    /\ UNCHANGED <<norm_vars, outer_vars, entry, max_retries, system_prompt, schema_prompt,
                   yaml_schema, schema_before, prompt, schema_dict,
                   provider_calls, timeouts, response>>

Next ==
    \/ ExtractPrepare
    \/ ExtractCall
    \/ ExtractFinish
    \/ YamlPrepare
    \/ YamlCall
    \/ YamlFinish

Spec == Init /\ [][Next]_vars

(***************************************************************************)
(* Properties of the entry points (checked under Spec).                    *)
(***************************************************************************)
\* JSON Schema's meaning of a mapping: value is an instance of schema (type,
\* properties, items, anyOf, additionalProperties: false)
RECURSIVE Conforms(_, _)
Conforms(value, schema) ==
    IF ~isinstance_dict(schema) THEN TRUE
    ELSE LET type == dict_get(schema, "type")
             props == dict_get(schema, "properties")
             items == dict_get(schema, "items")
             anyOf == dict_get(schema, "anyOf")
         IN  /\ type = Str("object") => isinstance_dict(value)
             /\ type = Str("array") => isinstance_list(value)
             /\ type = Str("string") => value.k = "str"
             /\ type = Str("null") => value = None
             /\ isinstance_dict(props) /\ isinstance_dict(value) =>
                  \A key \in (DOMAIN props.v) \cap (DOMAIN value.v) :
                      Conforms(value.v[key], props.v[key])
             /\ isinstance_dict(items) /\ isinstance_list(value) =>
                  \A i \in DOMAIN value.v : Conforms(value.v[i], items)
             /\ isinstance_list(anyOf) =>
                  \E i \in DOMAIN anyOf.v : Conforms(value, anyOf.v[i])
             /\ dict_get(schema, "additionalProperties") = PyFalse
                  /\ isinstance_dict(value) =>
                  (DOMAIN value.v) \subseteq
                      (IF isinstance_dict(props) THEN DOMAIN props.v ELSE {})

\* the decoded response value meets the contract of the schema of the call
ConformsToContract ==
    IF entry = "extract"
    THEN isinstance_dict(raw_data) /\ SchemaAccepts(raw_data)
    ELSE Conforms(raw_data, schema_before)

\* the response body is non-empty and is not JSON
MalformedBody(resp) == ReachesJsonLoads(resp) /\ json_loads(resp.content).raises

\* the response has a body and the body is empty or absent
EmptyBody(resp) ==
    /\ resp.kind = "completion"
    /\ resp.choices > 0
    /\ resp.content \in {None, Text(<<>>)}

\* a provider failure: a timeout, a provider exception, no choices, an empty
\* body, malformed JSON, JSON that violates the schema
ProviderFailed(resp) ==
    \/ resp.kind # "completion"
    \/ resp.choices = 0
    \/ EmptyBody(resp)
    \/ MalformedBody(resp)
    \/ ~ConformsToContract

\* exactly one of the two shapes of a result
ResultExclusive(r) ==
    \/ r.success /\ r.data # None /\ r.error = None
    \/ ~r.success /\ r.data = None /\ r.error # None

\* neither a prompt override nor a default prompt of the schema
PromptUnresolved == ~Truthy(system_prompt) /\ ~Truthy(schema_prompt)

\* C3: every ExtractionResult an entry point returns, whatever the provider
\* responded (JSON null and non-mapping values included), is either
\* (success, data non-null, error null) or (not success, data null, error
\* non-null).
C3_ResultExclusivity ==
    pc = "done" => ResultExclusive(result)

\* C4: every invocation hands the caller one ExtractionResult without
\* raising, and every provider failure (timeout, provider exception, empty
\* body, malformed JSON, schema-violating JSON, no choices) is reported as
\* success = false with a non-null error.
C4_FailuresAreErrorResults ==
    pc = "done" =>
        /\ ~raised
        /\ result # None
        /\ ProviderFailed(response) => ~result.success /\ result.error # None

\* C6: on every entry point a success result is returned only if the decoded
\* response value conforms to the schema's contract, and the invocation made
\* no further provider call.
C6_ValidationGate ==
    pc = "done" /\ result.success =>
        ConformsToContract /\ provider_calls = 1

\* C7: with max_retries = N, an extraction whose provider call times out on
\* every attempt makes exactly N provider attempts and then returns an error
\* result.
C7_RetryBudget ==
    pc = "done" /\ timeouts >= 1 /\ timeouts = provider_calls =>
        provider_calls = max_retries /\ ~result.success

\* C8 as stated: on every entry point a non-empty body that is not JSON
\* gives success = false with an error that contains "Invalid JSON response".
C8_InvalidJsonOnEveryEntry ==
    pc = "done" /\ MalformedBody(response) =>
        /\ ~result.success
        /\ StrContains(result.error, <<"Invalid", "JSON", "response">>)

\* C8 (amended): a non-empty body that is not JSON gives success = false
\* with an error that contains "Invalid JSON response" on
\* extract_with_yaml_schema and "Invalid response format" on extract.
C8_MalformedJsonError ==
    pc = "done" /\ MalformedBody(response) =>
        /\ ~result.success
        /\ result.data = None
        /\ entry = "extract_with_yaml_schema" =>
             StrContains(result.error, <<"Invalid", "JSON", "response">>)
        /\ entry = "extract" =>
             StrContains(result.error, <<"Invalid", "response", "format">>)

\* C8's case: extract_with_yaml_schema returned for a body that is not JSON
C8_Witness ==
    /\ pc = "done"
    /\ entry = "extract_with_yaml_schema"
    /\ response.content = JsonMalformed
    /\ json_loads_calls = 1
    /\ result.error = InvalidJsonResponse(JSONDecodeErrorMessage)

\* C9: when the provider returns an empty or absent body, the invocation
\* ends after that one provider call with success = false and error
\* "Empty response from LLM"; no JSON parsing, validation or retry follows.
C9_EmptyResponse ==
    pc = "done" /\ EmptyBody(response) =>
        /\ result = error_result(Text(<<"Empty", "response", "from", "LLM">>))
        /\ provider_calls = 1
        /\ json_loads_calls = 0
        /\ raw_data = None

\* C9's case: an entry point returned for the empty string as body
C9_Witness ==
    /\ pc = "done"
    /\ response.kind = "completion"
    /\ response.choices = 1
    /\ response.content = Text(<<>>)
    /\ ~result.success

\* C10: when neither a prompt override nor a schema default prompt is
\* available, the extraction returns an error result and no provider call is
\* issued.
C10_PromptGuard ==
    PromptUnresolved =>
        /\ provider_calls = 0
        /\ pc = "done" => ~result.success

\* C16: extract_with_yaml_schema normalizes a copy, so after the call the
\* schema mapping the YamlSchema argument holds, nested sub-mappings
\* included, equals what it was before the call.
C16_CallerSchemaUnchanged ==
    pc = "done" /\ entry = "extract_with_yaml_schema" =>
        yaml_schema = schema_before

(***************************************************************************)
(* Several calls, one after the other, on one extractor with the same      *)
(* arguments.  extractor.py imports get_logger and YamlSchema from utils   *)
(* and nothing else: no step of an entry point calls the RateLimiter, the  *)
(* SimpleCache or the CostTracker, so collaborator_calls never grows.      *)
(***************************************************************************)
SessionInit ==
    /\ NormIdle
    /\ NewSession
    /\ NoProcess
    /\ SingleThread
    /\ pc = "start"
    /\ entry \in {"extract", "extract_with_yaml_schema"}
    /\ max_retries = DefaultMaxRetries
    /\ schema_prompt \in Prompts
    /\ IF entry = "extract"
       THEN /\ system_prompt \in {None} \cup Prompts
            /\ yaml_schema = None
       ELSE /\ system_prompt = None
            /\ yaml_schema \in LeafSchemas
    /\ schema_before = yaml_schema
    /\ prompt = None
    /\ schema_dict = None
    /\ provider_calls = 0
    /\ timeouts = 0
    /\ response = None
    /\ json_loads_calls = 0
    /\ raw_data = None
    /\ result = None
    /\ raised = FALSE

\* the caller calls the entry point again: same text, schema, prompt, model
NextInvocation ==
    /\ pc = "done"
    /\ Len(history) + 1 < MaxInvocations
    /\ history' = Append(history, result)
    /\ pc' = "start"
    /\ schema_before' = yaml_schema
    /\ prompt' = None
    /\ schema_dict' = None
    /\ provider_calls' = 0
    /\ timeouts' = 0
    /\ response' = None
    /\ json_loads_calls' = 0
    /\ raw_data' = None
    /\ result' = None
    /\ raised' = FALSE
    /\ UNCHANGED <<norm_vars, proc_vars, conc_vars, collaborator_calls, entry, max_retries,
                   system_prompt, schema_prompt, yaml_schema>>

SessionNext ==
    \/ Next
    \/ NextInvocation

SpecSession == SessionInit /\ [][SessionNext]_vars

(***************************************************************************)
(* Properties of a session (checked under SpecSession).                    *)
(***************************************************************************)
\* the results returned so far, the call that has just returned included
ResultsSoFar == IF pc = "done" THEN Append(history, result) ELSE history

\* the estimated cost of one call, in millionths of a dollar
Price(tokens_used) ==
    IF tokens_used = None THEN 0 ELSE tokens_used.v * MicroDollarsPerToken

RECURSIVE SumOfCosts(_)
\* the per-call costs of the successful extractions among results, summed
SumOfCosts(results) ==
    IF results = <<>> THEN 0
    ELSE SumOfCosts(Tail(results))
           + (IF Head(results).success THEN Price(Head(results).tokens_used) ELSE 0)

RECURSIVE RecordedTotal(_)
\* the CostTracker's cumulative total: the costs it was asked to record
RecordedTotal(calls) ==
    IF calls = <<>> THEN 0
    ELSE RecordedTotal(Tail(calls))
           + (IF Head(calls).object = "CostTracker" /\ Head(calls).method = "record"
              THEN Price(Head(calls).tokens_used) ELSE 0)

\* the rate limiter admitted a call in the invocation under way
AdmittedInThisInvocation ==
    \E i \in DOMAIN collaborator_calls :
        /\ collaborator_calls[i].object = "RateLimiter"
        /\ collaborator_calls[i].method = "admit"
        /\ collaborator_calls[i].returned = "Allowed"
        /\ collaborator_calls[i].invocation = Len(history) + 1

\* C11: of two successive extractions on one extractor with identical
\* (schema, prompt, input text, model), the first of them successful, the
\* second is a cache hit: it issues no provider call and returns the result
\* of the first, token count included.
C11_SecondCallIsCacheHit ==
    /\ history # <<>> /\ history[Len(history)].success => provider_calls = 0
    /\ history # <<>> /\ history[Len(history)].success /\ pc = "done" =>
          result = history[Len(history)]

\* C12: every provider call is preceded, in the same invocation, by a
\* rate-limiter admission check that returned Allowed.
C12_AdmissionBeforeProviderCall ==
    provider_calls >= 1 => AdmittedInThisInvocation

\* C13: after any sequence of extractions the Cost Tracker's cumulative
\* total equals the sum of the per-call costs of the successful
\* extractions; failed extractions leave it unchanged.
C13_CostTotalIsSumOfSuccesses ==
    RecordedTotal(collaborator_calls) = SumOfCosts(ResultsSoFar)

(***************************************************************************)
(* A process run: the command line (cli.py) or a program that constructs   *)
(* a StructuredExtractor itself, from the environment to the exit.         *)
(***************************************************************************)
ApiKeys == {None, Text(<<>>), Text(<<"sk-key">>)}

\* config.py line 8: load_dotenv() sets the variables of the .env file that
\* the environment does not have yet
load_dotenv(env, dotenv) == IF env = None THEN dotenv ELSE env

ConfigErrorMessage ==
    Text(<<"OPENAI_API_KEY", "environment", "variable", "is", "required">>)

\* config.py line 25 as a plausible slip: `if api_key is None`
FromEnvRejectsAbsent(api_key) == api_key = None

\* config.py line 25: `if not api_key`
FromEnvRejects(api_key) == ~Truthy(api_key)

\* Config.from_env()
from_env(api_key) ==
    IF FromEnvRejects(api_key) THEN Raise(ConfigErrorMessage.v)
    ELSE Return([openai_api_key |-> api_key])

\* a Config the program built itself
ExplicitConfig == [openai_api_key |-> Text(<<"sk-explicit">>)]

\* loader.load_schema(schema_name): the YamlSchema, or an exception
LoadSchemaOutcomes ==
    {Raise(<<"FileNotFoundError">>), Raise(<<"Invalid", "schema">>)}
        \cup {Return(s) : s \in LeafSchemas}

\* cli.py lines 134-141 and 215-222 as a plausible slip: no check of the data
ExitsOnFailureOnly(r) == ~r.success

\* cli.py lines 134-141 and 215-222: both checks end in sys.exit(1)
ExitsBeforeSave(r) == ~r.success \/ r.data = None

\* save_extraction_result(result.data, name, output, data_dir)
save_extraction_result(result_data, template_name) ==
    [name |-> template_name, content |-> result_data]

ProcInit ==
    /\ NormIdle
    /\ NewSession
    /\ NoCall
    /\ \E env \in ApiKeys, dotenv \in {None, Text(<<"sk-key">>)} :
          environ = load_dotenv(env, dotenv)
    /\ mode \in {"cli", "library"}
    /\ IF mode = "cli"
       THEN /\ config_arg = None
            /\ command \in {"extract", "extract_custom", "list_templates"}
            /\ has_input \in BOOLEAN
            /\ no_save \in BOOLEAN
       ELSE /\ config_arg \in {None, ExplicitConfig}
            /\ command = "none"
            /\ has_input = TRUE
            /\ no_save = FALSE
    /\ config = None
    /\ proc_pc = "boot"
    /\ proc_error = None
    /\ exit_status = None
    /\ files = {}
    /\ SingleThread

\* RecipeSchema.get_extraction_prompt(), and a loaded schema's system_prompt
TemplatePrompt == Text(<<"Extract", "structured", "information">>)

\* the process ends: sys.exit(status), or the end of the command
Exit(status) ==
    /\ proc_pc' = "exited"
    /\ exit_status' = status

\* cli.py lines 57-67: the group callback, run before every command
Main ==
    /\ mode = "cli"
    /\ proc_pc = "boot"
    /\ LET loaded == from_env(environ)
       IN  IF loaded.raises
           THEN /\ proc_error' = Text(loaded.msg)
                /\ Exit(1)
                /\ UNCHANGED config
           ELSE /\ config' = loaded.value
                /\ proc_pc' = "command"
                /\ UNCHANGED <<proc_error, exit_status>>
    /\ UNCHANGED <<norm_vars, call_vars, session_vars, conc_vars, environ, mode, config_arg,
                   command, has_input, no_save, files>>

\* cli.py lines 70-75: a command that extracts nothing
ListTemplates ==
    /\ proc_pc = "command"
    /\ command = "list_templates"
    /\ Exit(0)
    /\ UNCHANGED <<norm_vars, call_vars, session_vars, conc_vars, environ, mode, config_arg,
                   config, command, has_input, no_save, proc_error, files>>

\* cli.py lines 104-132: the extract command up to the call of extract
CliExtract ==
    /\ proc_pc = "command"
    /\ command = "extract"
    /\ IF ~has_input
       THEN /\ Exit(1)
            /\ UNCHANGED <<pc, entry, schema_prompt>>
       ELSE /\ proc_pc' = "extracting"
            /\ entry' = "extract"
            /\ schema_prompt' = TemplatePrompt
            /\ pc' = "start"
            /\ UNCHANGED exit_status
    /\ UNCHANGED <<norm_vars, session_vars, conc_vars, max_retries, system_prompt, yaml_schema,
                   schema_before, prompt, schema_dict, provider_calls, timeouts,
                   response, json_loads_calls, raw_data, result, raised,
                   environ, mode, config_arg, config, command, has_input,
                   no_save, proc_error, files>>

\* cli.py lines 173-213: the extract-custom command up to the call
CliExtractCustom ==
    /\ proc_pc = "command"
    /\ command = "extract_custom"
    /\ \E loaded \in LoadSchemaOutcomes :
          IF loaded.raises \/ ~has_input
          THEN /\ Exit(1)
               /\ UNCHANGED <<pc, entry, schema_prompt, yaml_schema, schema_before>>
          ELSE /\ proc_pc' = "extracting"
               /\ entry' = "extract_with_yaml_schema"
               /\ yaml_schema' = loaded.value
               /\ schema_before' = loaded.value
               /\ schema_prompt' = TemplatePrompt
               /\ pc' = "start"
               /\ UNCHANGED exit_status
    /\ UNCHANGED <<norm_vars, session_vars, conc_vars, max_retries, system_prompt,
                   prompt, schema_dict, provider_calls, timeouts,
                   response, json_loads_calls, raw_data, result, raised,
                   environ, mode, config_arg, config, command, has_input,
                   no_save, proc_error, files>>

\* cli.py lines 134-160 and 215-241, the same code in both commands: the
\* checks of the result, the save, the exit
ReportAndSave(template_name) ==
    /\ proc_pc = "extracting"
    /\ pc = "done"
    /\ IF ExitsBeforeSave(result)
       THEN /\ Exit(1)
            /\ UNCHANGED files
       ELSE /\ files' = IF ~no_save
                        THEN files \cup {save_extraction_result(result.data,
                                                                template_name)}
                        ELSE files
            /\ Exit(0)
    /\ UNCHANGED <<norm_vars, call_vars, session_vars, conc_vars, environ, mode, config_arg,
                   config, command, has_input, no_save, proc_error>>

\* cli.py lines 134-160
CliExtractReport ==
    /\ command = "extract"
    /\ ReportAndSave("recipe")

\* cli.py lines 215-241
CliExtractCustomReport ==
    /\ command = "extract_custom"
    /\ ReportAndSave("custom")

\* extractor.py lines 17-21: StructuredExtractor(config) in a program
Construct ==
    /\ mode = "library"
    /\ proc_pc = "boot"
    /\ LET loaded == IF config_arg # None THEN Return(config_arg)
                     ELSE from_env(environ)
       IN  IF loaded.raises
           THEN /\ proc_error' = Text(loaded.msg)
                /\ proc_pc' = "failed"
                /\ UNCHANGED config
           ELSE /\ config' = loaded.value
                /\ proc_pc' = "constructed"
                /\ UNCHANGED proc_error
    /\ UNCHANGED <<norm_vars, call_vars, session_vars, conc_vars, environ, mode, config_arg,
                   command, has_input, no_save, exit_status, files>>

\* the program calls an entry point of the extractor it constructed
LibraryCall ==
    /\ mode = "library"
    /\ proc_pc = "constructed"
    /\ proc_pc' = "extracting"
    /\ pc' = "start"
    /\ schema_prompt' = TemplatePrompt
    /\ \/ /\ entry' = "extract"
          /\ UNCHANGED <<yaml_schema, schema_before>>
       \/ /\ entry' = "extract_with_yaml_schema"
          /\ yaml_schema' \in LeafSchemas
          /\ schema_before' = yaml_schema'
    /\ UNCHANGED <<norm_vars, session_vars, conc_vars, max_retries, system_prompt,
                   prompt, schema_dict, provider_calls, timeouts,
                   response, json_loads_calls, raw_data, result, raised,
                   environ, mode, config_arg, config, command, has_input,
                   no_save, proc_error, exit_status, files>>

ProcNext ==
    \/ Next
    \/ Main
    \/ ListTemplates
    \/ CliExtract
    \/ CliExtractCustom
    \/ CliExtractReport
    \/ CliExtractCustomReport
    \/ Construct
    \/ LibraryCall

SpecProcess == ProcInit /\ [][ProcNext]_vars

(***************************************************************************)
(* Properties of a process run (checked under SpecProcess).                *)
(***************************************************************************)
\* the credential is absent or empty in the environment
CredentialMissing == ~Truthy(environ)

\* C14: when the API credential is absent or empty in the environment,
\* Config.from_env fails with the configuration error: a StructuredExtractor
\* constructed without an explicit config, and every CLI command, fails, no
\* Config is built and no provider call is issued in the process run.
C14_MissingCredentialFatal ==
    CredentialMissing /\ config_arg = None =>
        /\ provider_calls = 0
        /\ config = None
        /\ pc = "idle"
        /\ proc_pc \in {"boot", "failed", "exited"}
        /\ proc_pc # "boot" => proc_error = ConfigErrorMessage
        /\ proc_pc = "exited" => exit_status = 1

\* the credential is set but empty, and the process has failed on it
C14_Witness ==
    /\ environ = Text(<<>>)
    /\ config_arg = None
    /\ proc_pc \in {"failed", "exited"}
    /\ proc_error = ConfigErrorMessage
    /\ provider_calls = 0

\* C17: in extract and extract-custom a result file is written only when
\* the extraction returned success = true with data that is not None and
\* --no-save was not given; when the extraction fails, or succeeds with
\* data None, the command exits with status 1 and writes no file.
C17_SaveGuard ==
    /\ files # {} =>
          /\ pc = "done"
          /\ result.success
          /\ result.data # None
          /\ ~no_save
          /\ \A f \in files : f.content = result.data
    /\ proc_pc = "exited" /\ pc = "done"
          /\ (~result.success \/ result.data = None) =>
             exit_status = 1 /\ files = {}

\* the extraction succeeded with data None, saving was asked for, and the
\* command has exited with status 1 and no file
C17_Witness ==
    /\ proc_pc = "exited"
    /\ pc = "done"
    /\ result.success
    /\ result.data = None
    /\ ~no_save
    /\ exit_status = 1
    /\ files = {}

(***************************************************************************)
(* Threads that call extract_with_yaml_schema on one YamlSchema object at  *)
(* the same time.  yaml_schema is the object's schema mapping, on the heap *)
(* all threads see; a thread's schema_dict is its own top-level mapping    *)
(* (line 114), whose values are the nested mappings of yaml_schema.  The   *)
(* walk of lines 156-172 is taken one dictionary operation at a time.      *)
(***************************************************************************)
Workers == 1 .. NumWorkers

ConcSchemas == SchemaTrees(MaxConcDepth)

\* what the provider does in these runs
ConcOutcomes ==
    { o \in ProviderOutcomes :
        /\ o.usage = None
        /\ o.kind # "APIError"
        /\ o.content \in {None, JsonConforming, JsonMalformed} }

\* one step from a mapping to a mapping inside it: the value under key
\* (idx = 0) or the idx-th item of the list under key
Child(node, step) ==
    IF step.idx = 0 THEN node.v[step.key] ELSE node.v[step.key].v[step.idx]

RECURSIVE NodeAt(_, _)
\* the mapping that path leads to from root
NodeAt(root, path) ==
    IF path = <<>> THEN root
    ELSE NodeAt(Child(root, Head(path)), Tail(path))

RECURSIVE StoreAt(_, _, _)
\* root after the mapping that path leads to has become node
StoreAt(root, path, node) ==
    IF path = <<>> THEN node
    ELSE LET step == Head(path)
             inner == StoreAt(Child(root, step), Tail(path), node)
         IN  IF step.idx = 0
             THEN Dict([root.v EXCEPT ![step.key] = inner])
             ELSE Dict([root.v EXCEPT
                          ![step.key] = List([@.v EXCEPT ![step.idx] = inner])])

\* line 114: schema_dict of a thread: its own top-level mapping, closed or
\* not, holding the values of yaml_schema
PrivateCopy(w) ==
    IF w.top_closed THEN CloseObject(yaml_schema) ELSE yaml_schema

\* one activation of the walk: the mapping it is at (path), where it stands
\* (kind), and its iterator over the mapping's items: the keys still to come
\* (todo) and the size of the mapping when the iterator was made (used)
Frame(kind, path) == [kind |-> kind, path |-> path, todo |-> {}, used |-> 0]

\* lines 163-172: the calls of the walk that one item of the loop makes
Recursions(path, key, value) ==
    LET into == <<Frame("enter", Append(path, [key |-> key, idx |-> 0]))>>
        items == IF isinstance_list(value)
                 THEN SelectSeq([i \in DOMAIN value.v |->
                                   Frame("enter",
                                         Append(path, [key |-> key, idx |-> i]))],
                                LAMBDA f : isinstance_dict(
                                    value.v[f.path[Len(f.path)].idx]))
                 ELSE <<>>
    IN  IF key \in NestedSchemaKeys
        THEN IF isinstance_dict(value) THEN into ELSE items
        ELSE IF isinstance_dict(value) THEN into ELSE <<>>

DictChangedSize ==
    Text(<<"dictionary", "changed", "size", "during", "iteration">>)

ConcInit ==
    /\ NormIdle
    /\ NewSession
    /\ NoProcess
    /\ pc = "idle"
    /\ entry = "extract_with_yaml_schema"
    /\ max_retries = DefaultMaxRetries
    /\ system_prompt = None
    /\ schema_prompt = TemplatePrompt
    /\ yaml_schema \in ConcSchemas
    /\ schema_before = yaml_schema
    /\ prompt = None
    /\ schema_dict = None
    /\ provider_calls = 0
    /\ timeouts = 0
    /\ response = None
    /\ json_loads_calls = 0
    /\ raw_data = None
    /\ result = None
    /\ raised = FALSE
    /\ workers = [t \in Workers |->
                    [pc |-> "start", top_closed |-> FALSE, stack |-> <<>>,
                     sent |-> None, response |-> None, result |-> None]]

\* what the steps of a thread leave alone
conc_frame == <<norm_vars, session_vars, proc_vars, pc, entry, max_retries,
                system_prompt, schema_prompt, schema_before, prompt, schema_dict,
                timeouts, response, json_loads_calls, raw_data, result, raised>>

\* lines 114-115: the shallow copy, and the call of the walk on it
WorkerStart(t) ==
    /\ workers[t].pc = "start"
    /\ workers' = [workers EXCEPT ![t].pc = "walk",
                                  ![t].stack = <<Frame("enter", <<>>)>>]
    /\ UNCHANGED <<conc_frame, yaml_schema, provider_calls>>

\* lines 159-160, on the thread's own top-level mapping or on a nested
\* mapping of yaml_schema
WorkerClose(t) ==
    LET w == workers[t]
        f == Head(w.stack)
        node == NodeAt(PrivateCopy(w), f.path)
    IN  /\ w.pc = "walk"
        /\ f.kind = "enter"
        /\ IF f.path = <<>>
           THEN /\ workers' = [workers EXCEPT
                      ![t].top_closed = (dict_get(node, "type") = Str("object")),
                      ![t].stack = <<[f EXCEPT !.kind = "iterate"]>> \o Tail(w.stack)]
                /\ UNCHANGED yaml_schema
           ELSE /\ yaml_schema' = StoreAt(yaml_schema, f.path, CloseObject(node))
                /\ workers' = [workers EXCEPT
                      ![t].stack = <<[f EXCEPT !.kind = "iterate"]>> \o Tail(w.stack)]
        /\ UNCHANGED <<conc_frame, provider_calls>>

\* line 163: schema_dict.items() makes the iterator
WorkerIterate(t) ==
    LET w == workers[t]
        f == Head(w.stack)
        node == NodeAt(PrivateCopy(w), f.path)
    IN  /\ w.pc = "walk"
        /\ f.kind = "iterate"
        /\ workers' = [workers EXCEPT
              ![t].stack = <<[f EXCEPT !.kind = "next",
                                       !.todo = DOMAIN node.v,
                                       !.used = Cardinality(DOMAIN node.v)]>>
                           \o Tail(w.stack)]
        /\ UNCHANGED <<conc_frame, yaml_schema, provider_calls>>

\* lines 163-172: the iterator's next item and the calls the loop body makes
\* for it; a mapping that changed size under the iterator raises RuntimeError,
\* which line 152 turns into an error result
WorkerNext(t) ==
    LET w == workers[t]
        f == Head(w.stack)
        node == NodeAt(PrivateCopy(w), f.path)
    IN  /\ w.pc = "walk"
        /\ f.kind = "next"
        /\ IF Cardinality(DOMAIN node.v) # f.used
           THEN workers' = [workers EXCEPT
                   ![t].pc = "done",
                   ![t].stack = <<>>,
                   ![t].result = error_result(DictChangedSize)]
           ELSE IF f.todo = {}
           THEN workers' = [workers EXCEPT
                   ![t].stack = Tail(w.stack),
                   ![t].pc = IF Tail(w.stack) = <<>> THEN "call" ELSE "walk"]
           ELSE LET key == CHOOSE x \in f.todo : TRUE
                IN  workers' = [workers EXCEPT
                       ![t].stack = Recursions(f.path, key, node.v[key])
                                    \o <<[f EXCEPT !.todo = @ \ {key}]>>
                                    \o Tail(w.stack)]
        /\ UNCHANGED <<conc_frame, yaml_schema, provider_calls>>

\* lines 117-132: the request carries schema_dict as it is now
WorkerCall(t) ==
    /\ workers[t].pc = "call"
    /\ \E outcome \in ConcOutcomes :
          workers' = [workers EXCEPT ![t].pc = "finish",
                                     ![t].sent = PrivateCopy(workers[t]),
                                     ![t].response = outcome]
    /\ provider_calls' = provider_calls + 1
    /\ UNCHANGED <<conc_frame, yaml_schema>>

\* lines 134-154
WorkerFinish(t) ==
    /\ workers[t].pc = "finish"
    /\ workers' = [workers EXCEPT
          ![t].pc = "done",
          ![t].result = CatchAll(YamlBody(workers[t].response))]
    /\ UNCHANGED <<conc_frame, yaml_schema, provider_calls>>

ConcNext ==
    \E t \in Workers :
        \/ WorkerStart(t)
        \/ WorkerClose(t)
        \/ WorkerIterate(t)
        \/ WorkerNext(t)
        \/ WorkerCall(t)
        \/ WorkerFinish(t)

SpecConcurrent == ConcInit /\ [][ConcNext]_vars

(***************************************************************************)
(* Properties of concurrent calls (checked under SpecConcurrent).          *)
(***************************************************************************)
\* every request sent so far carries a schema with every object closed
SendsNormalized ==
    \A t \in Workers :
        workers[t].sent # None => ObjectsClosed(workers[t].sent)

\* every request sent so far carries the schema a call on its own would send
SendsWhatAloneSends ==
    \A t \in Workers :
        workers[t].sent # None =>
            workers[t].sent = ensure_additional_properties_false(schema_before)

\* every call that has returned made its request, and returned what a call
\* on its own returns for the provider's answer
ReturnsWhatAloneReturns ==
    \A t \in Workers :
        workers[t].pc = "done" =>
            /\ workers[t].response # None
            /\ workers[t].result = CatchAll(YamlBody(workers[t].response))

\* the threads have written nothing into the mapping they share
SharedSchemaUntouched == yaml_schema = schema_before

\* C15: when extract_with_yaml_schema calls run concurrently on one
\* YamlSchema object, each normalizing its own copy, then under every
\* interleaving each call sends a fully normalized schema and returns the
\* result it would return alone, and the calls share no mutable state
\* through the schema: the YamlSchema's mapping is written by none of them.
C15_NoInterferenceThroughSchema ==
    /\ SendsNormalized
    /\ ReturnsWhatAloneReturns
    /\ SharedSchemaUntouched

====
